---------------------------- MODULE Spec2Model ----------------------------
(***************************************************************************)
(* TikTok verse relay: the relay server (src/server.js) that admits chat   *)
(* references under a global throttle and a per-user cooldown and          *)
(* broadcasts them over a WebSocket hub, and the overlay page              *)
(* (src/unnamed/part_000, lines 1-136) that queues the broadcast read      *)
(* requests and presents them one at a time.                               *)
(*                                                                         *)
(* Strings the code inspects character by character (chat comments,        *)
(* references, verse text) are sequences of one-character strings.  A      *)
(* JavaScript value that is undefined, null or '' is the empty sequence    *)
(* (or the empty string for names): the code only ever tests such values   *)
(* for truthiness.  Times are milliseconds, as Date.now() gives them.      *)
(***************************************************************************)
EXTENDS Integers, Sequences, FiniteSets, TLC

VARIABLES
    now,             \* Date.now() of the relay process
    lastActivityAt,  \* server.js:25
    lastGlobal,      \* server.js:61
    recentUsers,     \* server.js:60, Map userId -> lastTime
    nextKeepalive,   \* due time of the setInterval of server.js:139
    adminToken,      \* ADMIN_TOKEN, server.js:9
    response,        \* what the last run of a server handler answered
    sent,            \* history: the broadcasts, in order
    readyState,      \* per consumer socket of wss.clients: 1 is OPEN
    chan,            \* per consumer: frames sent and not yet received
    page             \* per consumer: the state of the overlay page

vars == <<now, lastActivityAt, lastGlobal, recentUsers, nextKeepalive,
          adminToken, response, sent, readyState, chan, page>>

serverVars == <<now, lastActivityAt, lastGlobal, recentUsers, nextKeepalive,
                adminToken, response, sent>>

-----------------------------------------------------------------------------
(* Characters *)

LowerSeq == <<"a","b","c","d","e","f","g","h","i","j","k","l","m",
              "n","o","p","q","r","s","t","u","v","w","x","y","z">>
UpperSeq == <<"A","B","C","D","E","F","G","H","I","J","K","L","M",
              "N","O","P","Q","R","S","T","U","V","W","X","Y","Z">>
DigitSeq == <<"0","1","2","3","4","5","6","7","8","9">>

Range(f) == {f[i] : i \in DOMAIN f}
Lower == Range(LowerSeq)
Upper == Range(UpperSeq)
Digits == Range(DigitSeq)

IsLower(c) == c \in Lower
IsUpper(c) == c \in Upper
IsAlpha(c) == IsLower(c) \/ IsUpper(c)
IsDigit(c) == c \in Digits
\* \w of a JavaScript regular expression
IsWord(c) == IsAlpha(c) \/ IsDigit(c) \/ c = "_"
\* \s of a JavaScript regular expression (the characters the model uses)
IsSpace(c) == c \in {" ", "\t", "\n"}

IndexIn(seq, c) == CHOOSE i \in DOMAIN seq : seq[i] = c
ToLower(c) == IF IsUpper(c) THEN LowerSeq[IndexIn(UpperSeq, c)] ELSE c
ToUpper(c) == IF IsLower(c) THEN UpperSeq[IndexIn(LowerSeq, c)] ELSE c
DigitVal(c) == IndexIn(DigitSeq, c) - 1

AllIn(s, i, j, P(_)) == \A k \in i..j : P(s[k])

\* String.prototype.trim
Trim(s) ==
    LET keep == {i \in DOMAIN s : ~IsSpace(s[i])}
    IN  IF keep = {} THEN <<>>
        ELSE LET lo == CHOOSE i \in keep : \A j \in keep : i <= j
                 hi == CHOOSE i \in keep : \A j \in keep : j <= i
             IN  SubSeq(s, lo, hi)

\* s.replace(/\s+/g, ' ')
RECURSIVE CollapseSpaces(_)
CollapseSpaces(s) ==
    IF s = <<>> THEN <<>>
    ELSE IF IsSpace(Head(s))
         THEN IF Len(s) > 1 /\ IsSpace(s[2])
              THEN CollapseSpaces(Tail(s))
              ELSE <<" ">> \o CollapseSpaces(Tail(s))
         ELSE <<Head(s)>> \o CollapseSpaces(Tail(s))

\* The decimal value of a run of digits, and the digits of a number
RECURSIVE DigitsToNat(_)
DigitsToNat(ds) ==
    IF ds = <<>> THEN 0
    ELSE 10 * DigitsToNat(SubSeq(ds, 1, Len(ds) - 1)) + DigitVal(ds[Len(ds)])

RECURSIVE NatToDigits(_)
NatToDigits(n) ==
    IF n < 10 THEN <<DigitSeq[n + 1]>>
    ELSE NatToDigits(n \div 10) \o <<DigitSeq[(n % 10) + 1]>>


-----------------------------------------------------------------------------
(* Reference parsing: server.js:56-73, part_000:24-25 *)

IsDigitRun(s, i, j) == i <= j /\ j - i + 1 <= 3 /\ j <= Len(s) /\ AllIn(s, i, j, IsDigit)
IsAlnum(c) == IsAlpha(c) \/ IsDigit(c)
\* \b after position e, where s[e] is a word character
BoundaryAfter(s, e) == e = Len(s) \/ ~IsWord(s[e + 1])
\* \b before position i, where s[i] is a word character
BoundaryBefore(s, i) == i = 1 \/ ~IsWord(s[i - 1])

\* VERSE_RE matches s from position i:
\* \b[0-9a-zA-Z]+\s+\d{1,3}:\d{1,3}(?:-\d{1,3})?\b  with flag i
VerseMatchAt(s, i) ==
    LET n == Len(s)
    IN  /\ BoundaryBefore(s, i)
        /\ \E w \in i..n :
              /\ AllIn(s, i, w, IsAlnum)
              /\ \E p \in (w + 1)..n :
                    /\ AllIn(s, w + 1, p, IsSpace)
                    /\ \E ce \in (p + 1)..n :
                          /\ IsDigitRun(s, p + 1, ce)
                          /\ ce + 1 <= n /\ s[ce + 1] = ":"
                          /\ \E ve \in (ce + 2)..n :
                                /\ IsDigitRun(s, ce + 2, ve)
                                /\ \/ BoundaryAfter(s, ve)
                                   \/ \E ee \in (ve + 2)..n :
                                         /\ s[ve + 1] = "-"
                                         /\ IsDigitRun(s, ve + 2, ee)
                                         /\ BoundaryAfter(s, ee)

\* VERSE_RE.test(s): the pattern is not anchored
looksLikeVerse(s) == \E i \in 1..Len(s) : VerseMatchAt(s, i)

\* text.replace(/([a-zA-Z])(\d)/, '$1 $2'): the first letter-digit pair only
normalizeInline(s) ==
    LET hits == {i \in 1..(Len(s) - 1) : IsAlpha(s[i]) /\ IsDigit(s[i + 1])}
    IN  IF hits = {} THEN s
        ELSE LET i == CHOOSE h \in hits : \A g \in hits : h <= g
             IN  SubSeq(s, 1, i) \o <<" ">> \o SubSeq(s, i + 1, Len(s))

MAX_RANGE_SPAN == 5

\* The places <<k, d>> where /^(.*?:)(\d+)-(\d+)$/ matches: the colon ending
\* the prefix and the dash between the two numbers
ClampMatches(s) ==
    LET n == Len(s)
    IN  {m \in (1..n) \X (1..n) :
            /\ s[m[1]] = ":" /\ s[m[2]] = "-"
            /\ m[1] + 1 <= m[2] - 1 /\ m[2] + 1 <= n
            /\ AllIn(s, m[1] + 1, m[2] - 1, IsDigit)
            /\ AllIn(s, m[2] + 1, n, IsDigit)
            /\ \A k \in 1..(m[1] - 1) : s[k] # "\n"}

clampRange(ref) ==
    IF ClampMatches(ref) = {} THEN ref
    ELSE LET m == CHOOSE x \in ClampMatches(ref) : TRUE
             p == SubSeq(ref, 1, m[1])
             A == DigitsToNat(SubSeq(ref, m[1] + 1, m[2] - 1))
             B == DigitsToNat(SubSeq(ref, m[2] + 1, Len(ref)))
         IN  IF B - A > MAX_RANGE_SPAN
             THEN p \o NatToDigits(A) \o <<"-">> \o NatToDigits(A + MAX_RANGE_SPAN)
             ELSE ref

\* s.replace(/\b([a-z])([a-z]*)/gi, (_,a,b) => a.toUpperCase()+b.toLowerCase())
titleCase(s) ==
    [i \in 1..Len(s) |->
        IF ~IsAlpha(s[i]) THEN s[i]
        ELSE LET runs == {j \in 1..i : AllIn(s, j, i, IsAlpha)}
                 j == CHOOSE a \in runs : \A b \in runs : a <= b
             IN  IF ~BoundaryBefore(s, j) THEN s[i]
                 ELSE IF i = j THEN ToUpper(s[i]) ELSE ToLower(s[i])]

toLowerCase(s) == [i \in 1..Len(s) |-> ToLower(s[i])]

\* String(raw||'').trim().toLowerCase().replace(/\s+/g,' '), then titleCase
normalizeRef(raw) == titleCase(CollapseSpaces(toLowerCase(Trim(raw))))

-----------------------------------------------------------------------------
(* The relay server: server.js *)

USER_COOLDOWN_MS == 75000
GLOBAL_MIN_INTERVAL_MS == 12000
KEEPALIVE_INTERVAL_MS == 60000
QUIET_GAP_MS == 55000

AUTO_VERSES ==
    << <<"J","o","h","n"," ","3",":","1","6">>,
       <<"P","s","a","l","m"," ","2","3",":","1">>,
       <<"P","r","o","v","e","r","b","s"," ","3",":","5","-","6">>,
       <<"R","o","m","a","n","s"," ","1","2",":","2">>,
       <<"P","h","i","l","i","p","p","i","a","n","s"," ","4",":","6","-","7">>,
       <<"M","a","t","t","h","e","w"," ","1","1",":","2","8">> >>

Consumers == {"c1", "c2"}
OPEN == 1
CLOSED == 3

\* Date.now() when the process starts.  Any start later than USER_COOLDOWN_MS
\* after the epoch behaves alike; the value keeps times within TLC's integers.
StartTime == 1000000
\* The clock is observed at StartTime + o, o in Offsets: at the program's
\* intervals and Eps before and after them, up to Horizon.
Horizon == 76000
Eps == 1000
Offsets ==
    {o \in {0, Eps,
            GLOBAL_MIN_INTERVAL_MS, GLOBAL_MIN_INTERVAL_MS + Eps,
            USER_COOLDOWN_MS - QUIET_GAP_MS,
            USER_COOLDOWN_MS, USER_COOLDOWN_MS + Eps} :
        0 <= o /\ o <= Horizon}
\* The number of broadcasts a behaviour is followed for: of the relay alone,
\* and of the relay with its pages
MaxSent == 2
MaxRelayed == 3

NoResponse == [op |-> "none", user |-> "", result |-> "", ref |-> <<>>]

\* The frame a consumer receives: JSON.stringify drops the undefined members
\* and JSON.parse gives them back as undefined.  id is the broadcast's number
\* in `sent` (history, not on the wire).
Frame(obj, id) ==
    [type |-> obj.type, ref |-> obj.ref, text |-> obj.text,
     audioUrl |-> obj.audioUrl, user |-> obj.user, items |-> <<>>, id |-> id]

\* function broadcast(obj), and the history of what was broadcast
broadcast(obj, kind, key) ==
    /\ lastActivityAt' = now
    /\ chan' = [c \in Consumers |->
                  IF readyState[c] = OPEN
                  THEN Append(chan[c], Frame(obj, Len(sent) + 1))
                  ELSE chan[c]]
    /\ sent' = Append(sent, [kind |-> kind, at |-> now, user |-> key])

\* recentUsers.get(userId) || 0
RecentOf(userId) == IF userId \in DOMAIN recentUsers THEN recentUsers[userId] ELSE 0

\* Variants of allowedToEnqueue, against which the admission properties are
\* tested: without the global interval, without the per-user cooldown, and
\* one that records the attempt before the per-user check
allowedToEnqueueNoGlobal(userId) ==
    IF now - RecentOf(userId) < USER_COOLDOWN_MS
    THEN [ok |-> FALSE, recentUsers |-> recentUsers, lastGlobal |-> lastGlobal]
    ELSE [ok |-> TRUE,
          recentUsers |-> [u \in DOMAIN recentUsers \cup {userId} |->
                              IF u = userId THEN now ELSE recentUsers[u]],
          lastGlobal |-> now]

allowedToEnqueueNoCooldown(userId) ==
    IF now - lastGlobal < GLOBAL_MIN_INTERVAL_MS
    THEN [ok |-> FALSE, recentUsers |-> recentUsers, lastGlobal |-> lastGlobal]
    ELSE [ok |-> TRUE,
          recentUsers |-> [u \in DOMAIN recentUsers \cup {userId} |->
                              IF u = userId THEN now ELSE recentUsers[u]],
          lastGlobal |-> now]

allowedToEnqueueEarlyWrite(userId) ==
    IF now - lastGlobal < GLOBAL_MIN_INTERVAL_MS
    THEN [ok |-> FALSE, recentUsers |-> recentUsers, lastGlobal |-> lastGlobal]
    ELSE IF now - RecentOf(userId) < USER_COOLDOWN_MS
    THEN [ok |-> FALSE, recentUsers |-> recentUsers, lastGlobal |-> now]
    ELSE [ok |-> TRUE,
          recentUsers |-> [u \in DOMAIN recentUsers \cup {userId} |->
                              IF u = userId THEN now ELSE recentUsers[u]],
          lastGlobal |-> now]

\* function allowedToEnqueue(userId): its result and the state it leaves
allowedToEnqueue(userId) ==
    IF now - lastGlobal < GLOBAL_MIN_INTERVAL_MS
    THEN [ok |-> FALSE, recentUsers |-> recentUsers, lastGlobal |-> lastGlobal]
    ELSE IF now - RecentOf(userId) < USER_COOLDOWN_MS
    THEN [ok |-> FALSE, recentUsers |-> recentUsers, lastGlobal |-> lastGlobal]
    ELSE [ok |-> TRUE,
          recentUsers |-> [u \in DOMAIN recentUsers \cup {userId} |->
                              IF u = userId THEN now ELSE recentUsers[u]],
          lastGlobal |-> now]

\* String(data?.userId || data?.uniqueId || 'anon')
UserKey(data) ==
    IF data.userId # "" THEN data.userId
    ELSE IF data.uniqueId # "" THEN data.uniqueId
    ELSE "anon"

\* tiktok.on('chat', (data) => ...)
Chat(data) ==
    LET userId == UserKey(data)
        text == Trim(data.comment)
        tag == IF data.uniqueId # "" THEN data.uniqueId ELSE "user"
    IN  /\ IF ~looksLikeVerse(text)
           THEN /\ response' = [op |-> "chat", user |-> userId, result |-> "ignored", ref |-> <<>>]
                /\ UNCHANGED <<lastActivityAt, lastGlobal, recentUsers, sent, chan>>
           ELSE LET a == allowedToEnqueue(userId)
                    safe == clampRange(normalizeInline(text))
                IN  /\ recentUsers' = a.recentUsers
                    /\ lastGlobal' = a.lastGlobal
                    /\ IF ~a.ok
                       THEN /\ response' = [op |-> "chat", user |-> userId,
                                            result |-> "throttled", ref |-> <<>>]
                            /\ UNCHANGED <<lastActivityAt, sent, chan>>
                       ELSE /\ broadcast([type |-> "read", ref |-> safe, text |-> <<>>,
                                          audioUrl |-> "", user |-> tag], "chat", userId)
                            /\ response' = [op |-> "chat", user |-> userId,
                                            result |-> "queued", ref |-> safe]
        /\ UNCHANGED <<now, nextKeepalive, adminToken, readyState, page>>

\* `Bearer ${ADMIN_TOKEN}`
Bearer(token) == <<"B","e","a","r","e","r"," ">> \o token

\* A variant of the /inject handler that notes the activity before it checks
\* the credential
InjectTouchFirst(auth, body) ==
    /\ IF adminToken = <<>> \/ auth # Bearer(adminToken)
       THEN /\ response' = [op |-> "inject", user |-> "", result |-> "401", ref |-> <<>>]
            /\ lastActivityAt' = now
            /\ UNCHANGED <<sent, chan>>
       ELSE IF body.ref = <<>>
       THEN /\ response' = [op |-> "inject", user |-> "", result |-> "400", ref |-> <<>>]
            /\ lastActivityAt' = now
            /\ UNCHANGED <<sent, chan>>
       ELSE LET user == IF body.user # "" THEN body.user ELSE "admin"
            IN  /\ broadcast([type |-> "read", ref |-> body.ref, text |-> body.text,
                              audioUrl |-> body.audioUrl, user |-> user], "inject", user)
                /\ response' = [op |-> "inject", user |-> user, result |-> "200",
                                ref |-> body.ref]
    /\ UNCHANGED <<now, lastGlobal, recentUsers, nextKeepalive, adminToken, readyState, page>>

\* app.post('/inject', (req, res) => ...)
Inject(auth, body) ==
    /\ IF adminToken = <<>> \/ auth # Bearer(adminToken)
       THEN /\ response' = [op |-> "inject", user |-> "", result |-> "401", ref |-> <<>>]
            /\ UNCHANGED <<lastActivityAt, sent, chan>>
       ELSE IF body.ref = <<>>
       THEN /\ response' = [op |-> "inject", user |-> "", result |-> "400", ref |-> <<>>]
            /\ UNCHANGED <<lastActivityAt, sent, chan>>
       ELSE LET user == IF body.user # "" THEN body.user ELSE "admin"
            IN  /\ broadcast([type |-> "read", ref |-> body.ref, text |-> body.text,
                              audioUrl |-> body.audioUrl, user |-> user], "inject", user)
                /\ response' = [op |-> "inject", user |-> user, result |-> "200",
                                ref |-> body.ref]
    /\ UNCHANGED <<now, lastGlobal, recentUsers, nextKeepalive, adminToken, readyState, page>>

\* A variant of the keepalive callback that does not count the clients
KeepaliveAnyClients(i) ==
    LET idleFor == now - lastActivityAt
    IN  /\ now >= nextKeepalive
        /\ nextKeepalive' = now + KEEPALIVE_INTERVAL_MS
        /\ IF idleFor > QUIET_GAP_MS
           THEN    /\ broadcast([type |-> "read", ref |-> AUTO_VERSES[i], text |-> <<>>,
                                 audioUrl |-> "", user |-> "auto"], "auto", "auto")
                   /\ response' = [op |-> "auto", user |-> "auto", result |-> "fired",
                                   ref |-> AUTO_VERSES[i]]
           ELSE /\ response' = [op |-> "auto", user |-> "auto", result |-> "skipped",
                                ref |-> <<>>]
                /\ UNCHANGED <<lastActivityAt, sent, chan>>
        /\ UNCHANGED <<now, lastGlobal, recentUsers, adminToken, readyState, page>>

\* setInterval(() => ..., KEEPALIVE_INTERVAL_MS): one run of the callback, at
\* or after its due time; i is Math.floor(Math.random() * AUTO_VERSES.length),
\* counted from 1
Keepalive(i) ==
    LET clients == Cardinality({c \in Consumers : readyState[c] = OPEN})
        idleFor == now - lastActivityAt
    IN  /\ now >= nextKeepalive
        /\ nextKeepalive' = now + KEEPALIVE_INTERVAL_MS
        /\ IF clients > 0 /\ idleFor > QUIET_GAP_MS
           THEN    /\ broadcast([type |-> "read", ref |-> AUTO_VERSES[i], text |-> <<>>,
                                 audioUrl |-> "", user |-> "auto"], "auto", "auto")
                   /\ response' = [op |-> "auto", user |-> "auto", result |-> "fired",
                                   ref |-> AUTO_VERSES[i]]
           ELSE /\ response' = [op |-> "auto", user |-> "auto", result |-> "skipped",
                                ref |-> <<>>]
                /\ UNCHANGED <<lastActivityAt, sent, chan>>
        /\ UNCHANGED <<now, lastGlobal, recentUsers, adminToken, readyState, page>>

\* Time passes between two handler runs (the last answer has been delivered)
Tick(o) ==
    /\ StartTime + o > now
    /\ now' = StartTime + o
    /\ response' = NoResponse
    /\ UNCHANGED <<lastActivityAt, lastGlobal, recentUsers, nextKeepalive, adminToken,
                   sent, readyState, chan, page>>

\* A consumer's socket opens (wss.on('connection')) or closes; frames in
\* flight to a closed socket are lost
WsOpen(c) ==
    /\ readyState[c] = CLOSED
    /\ readyState' = [readyState EXCEPT ![c] = OPEN]
    /\ UNCHANGED <<serverVars, chan, page>>

WsClose(c) ==
    /\ readyState[c] = OPEN
    /\ readyState' = [readyState EXCEPT ![c] = CLOSED]
    /\ chan' = [chan EXCEPT ![c] = <<>>]
    /\ UNCHANGED <<serverVars, page>>

-----------------------------------------------------------------------------
(* The overlay page: part_000:1-136.  page[c] is the page of consumer c:    *)
(*   q, playing, audioUnlocked   the globals of part_000:16-18              *)
(*   unlockHidden                elUnlock.hidden                            *)
(*   loops                       the running playLoop() calls, each at the  *)
(*                               await it is suspended in, with its item    *)
(*   audio, onended              elAudio: whether it plays, and the item    *)
(*                               whose promise elAudio.onended resolves     *)
(*   speaking, interrupted       speechSynthesis: the utterance spoken (0   *)
(*                               none, -1 the priming one), and those cut   *)
(*                               by cancel() whose end event is not yet     *)
(*                               delivered (a browser may never deliver it) *)
(*   timers                      the armed setTimeout calls that cancel     *)
(*   enabling                    enableAudio() calls awaiting elAudio.play()*)
(*   speechEnv                   the browser: "none" (no speechSynthesis in *)
(*                               window), "ok", "speakThrows", "ctorThrows" *)
(* and, as history: received (the items as enqueued, each with the number   *)
(* of the broadcast it came from), fetched (lookups started), resolved      *)
(* (lookups answered), presented (showCurrent calls, with the text shown),  *)
(* played (items past the unlock gate), completed (playItem calls ended)   *)
(* and clears: of each clear, the items it removed from q (queued) and the  *)
(* items a loop was resolving or holding at the unlock gate (held).         *)
(* An item's id is its arrival number on the page.                          *)
(***************************************************************************)

NoItem == [id |-> 0, ref |-> <<>>, text |-> <<>>, audioUrl |-> "", user |-> ""]

InitPage(env, hidden) ==
    [q |-> <<>>, playing |-> FALSE, audioUnlocked |-> FALSE, unlockHidden |-> hidden,
     loops |-> <<>>, audio |-> "stopped", onended |-> 0,
     speaking |-> 0, interrupted |-> {}, timers |-> {}, enabling |-> 0,
     speechEnv |-> env,
     received |-> <<>>, fetched |-> <<>>, resolved |-> <<>>, presented |-> <<>>,
     played |-> <<>>, completed |-> <<>>, clears |-> {}]

RemoveAt(seq, l) == SubSeq(seq, 1, l - 1) \o SubSeq(seq, l + 1, Len(seq))

SetLoop(p, l, pc, item) == [p EXCEPT !.loops[l] = [pc |-> pc, item |-> item]]

LoopsAt(p, pc) == {l \in DOMAIN p.loops : p.loops[l].pc = pc}

\* The loops suspended in the speech race of item id
SpeechWaiters(p, id) ==
    {l \in DOMAIN p.loops : p.loops[l].pc = "speech" /\ p.loops[l].item.id = id}

\* speechSynthesis.cancel()
synthCancel(p) ==
    IF p.speaking = 0 THEN p
    ELSE [p EXCEPT !.speaking = 0,
                   !.interrupted = IF SpeechWaiters(p, p.speaking) # {}
                                   THEN @ \cup {p.speaking} ELSE @]

\* playItem returns: the loop goes on to `await sleep(1000)`
itemDone(p, l, how) ==
    [SetLoop(p, l, "gap", p.loops[l].item) EXCEPT
        !.completed = Append(@, [id |-> p.loops[l].item.id, how |-> how])]

RECURSIVE loopTop(_, _)
RECURSIVE startPlaying(_, _, _)

\* playItem(item) from `elAudio.volume = 1` on (part_000:66-88)
startPlaying(p0, l, item) ==
    LET p == [p0 EXCEPT !.played = Append(@, item.id)]
    IN
    IF item.audioUrl # ""
    THEN SetLoop(p, l, "audioPlay", item)
    ELSE IF p.speechEnv = "none"
    THEN SetLoop(p, l, "fallback", item)
    ELSE IF p.speechEnv = "ctorThrows"
    THEN \* new SpeechSynthesisUtterance throws: playItem rejects, playLoop's
         \* catch swallows it and the while loop goes on at once
         loopTop([SetLoop(p, l, "top", item) EXCEPT
                     !.completed = Append(@, [id |-> item.id, how |-> "threw"])], l)
    ELSE LET armed == [p EXCEPT !.timers = @ \cup {[kind |-> "watchdog", id |-> item.id]}]
             quiet == synthCancel(armed)
             spoken == IF p.speechEnv = "ok"
                       THEN [quiet EXCEPT !.speaking = item.id]
                       ELSE quiet
         IN  SetLoop(spoken, l, "speech", item)

\* A variant of playItem that does not wait at the unlock gate
playItemNoGate(p, l, item) ==
    LET shown == [p EXCEPT !.presented =
                     Append(@, [id |-> item.id,
                                text |-> IF item.text # <<>> THEN item.text ELSE item.ref])]
    IN  startPlaying(shown, l, item)

\* playItem(item): showCurrent, then the unlock gate (part_000:61-64)
playItem(p, l, item) ==
    LET shown == [p EXCEPT !.presented =
                     Append(@, [id |-> item.id,
                                text |-> IF item.text # <<>> THEN item.text ELSE item.ref])]
    IN  IF ~shown.audioUnlocked
        THEN \* ensureAudioUnlocked(): show the prompt and poll
             SetLoop([shown EXCEPT !.unlockHidden = FALSE], l, "unlockWait", item)
        ELSE startPlaying(shown, l, item)

\* The head of the while loop of playLoop (part_000:49-58)
loopTop(p, l) ==
    IF p.q = <<>>
    THEN [p EXCEPT !.playing = FALSE, !.loops = RemoveAt(@, l)]
    ELSE LET item == Head(p.q)
             p1 == [p EXCEPT !.q = Tail(@)]
         IN  IF item.text = <<>>
             THEN SetLoop([p1 EXCEPT !.fetched = Append(@, item.id)], l, "fetch", item)
             ELSE playItem(p1, l, item)

\* A variant of playLoop that does not raise the playing flag
playLoopNoFlag(p) ==
    loopTop([p EXCEPT !.loops = Append(@, [pc |-> "top", item |-> NoItem])],
            Len(p.loops) + 1)

\* async function playLoop(): up to its first await
playLoop(p) ==
    loopTop([p EXCEPT !.playing = TRUE,
                      !.loops = Append(@, [pc |-> "top", item |-> NoItem])],
            Len(p.loops) + 1)

\* A variant of enqueue that puts the item at the head of q (unshift for push)
enqueueAtHead(p, ref, opts, from) ==
    LET item == [id |-> Len(p.received) + 1, ref |-> normalizeRef(ref), text |-> opts.text,
                 audioUrl |-> opts.audioUrl, user |-> opts.user]
        p1 == [p EXCEPT !.q = <<item>> \o @,
                        !.received = Append(@, [from |-> from, ref |-> item.ref,
                                                text |-> item.text])]
    IN  IF ~p1.playing THEN playLoop(p1) ELSE p1

\* A variant of enqueue that starts a loop whether or not one is running
enqueueAlwaysStarts(p, ref, opts, from) ==
    LET item == [id |-> Len(p.received) + 1, ref |-> normalizeRef(ref), text |-> opts.text,
                 audioUrl |-> opts.audioUrl, user |-> opts.user]
        p1 == [p EXCEPT !.q = Append(@, item),
                        !.received = Append(@, [from |-> from, ref |-> item.ref,
                                                text |-> item.text])]
    IN  playLoop(p1)

\* function enqueue(ref, opts); from is the number of the broadcast (history)
enqueue(p, ref, opts, from) ==
    LET item == [id |-> Len(p.received) + 1, ref |-> normalizeRef(ref), text |-> opts.text,
                 audioUrl |-> opts.audioUrl, user |-> opts.user]
        p1 == [p EXCEPT !.q = Append(@, item),
                        !.received = Append(@, [from |-> from, ref |-> item.ref,
                                                text |-> item.text])]
    IN  IF ~p1.playing THEN playLoop(p1) ELSE p1

RECURSIVE enqueueAll(_, _, _)
\* msg.items.forEach(it => enqueue(it.ref, {...}))
enqueueAll(p, items, from) ==
    IF items = <<>> THEN p
    ELSE enqueueAll(enqueue(p, Head(items).ref, Head(items), from), Tail(items), from)

\* Variants of ws.onmessage: one whose clear drops only the head of q, and
\* one whose clear also abandons the item waiting at the unlock gate
onmessageClearsHead(p, msg) ==
    LET p1 == IF msg.type = "read" /\ msg.ref # <<>>
              THEN enqueue(p, msg.ref, msg, msg.id) ELSE p
        p2 == IF msg.type = "bulk" THEN enqueueAll(p1, msg.items, msg.id) ELSE p1
        p3 == IF msg.type = "clear"
              THEN [p2 EXCEPT
                      !.q = IF @ = <<>> THEN @ ELSE Tail(@),
                      !.clears = @ \cup
                          {[queued |-> {p2.q[i].id : i \in DOMAIN p2.q},
                            held |-> {p2.loops[l].item.id :
                                        l \in LoopsAt(p2, "fetch")
                                              \cup LoopsAt(p2, "unlockWait")}]}]
              ELSE p2
    IN  IF ~p3.audioUnlocked THEN [p3 EXCEPT !.unlockHidden = FALSE] ELSE p3

onmessageClearsWaiting(p, msg) ==
    LET p1 == IF msg.type = "read" /\ msg.ref # <<>>
              THEN enqueue(p, msg.ref, msg, msg.id) ELSE p
        p2 == IF msg.type = "bulk" THEN enqueueAll(p1, msg.items, msg.id) ELSE p1
        waiting == LoopsAt(p2, "unlockWait")
        p3 == IF msg.type = "clear"
              THEN [p2 EXCEPT
                      !.q = <<>>,
                      !.loops = IF waiting = {} THEN @ ELSE <<>>,
                      !.playing = IF waiting = {} THEN @ ELSE FALSE,
                      !.clears = @ \cup
                          {[queued |-> {p2.q[i].id : i \in DOMAIN p2.q},
                            held |-> {p2.loops[l].item.id :
                                        l \in LoopsAt(p2, "fetch")
                                              \cup LoopsAt(p2, "unlockWait")}]}]
              ELSE p2
    IN  IF ~p3.audioUnlocked THEN [p3 EXCEPT !.unlockHidden = FALSE] ELSE p3

\* A variant of ws.onmessage whose clear also silences the item presenting
onmessageClearSilences(p, msg) ==
    LET p1 == IF msg.type = "read" /\ msg.ref # <<>>
              THEN enqueue(p, msg.ref, msg, msg.id) ELSE p
        p2 == IF msg.type = "bulk" THEN enqueueAll(p1, msg.items, msg.id) ELSE p1
        p3 == IF msg.type = "clear"
              THEN [synthCancel(p2) EXCEPT
                      !.q = <<>>,
                      !.audio = "stopped",
                      !.clears = @ \cup
                          {[queued |-> {p2.q[i].id : i \in DOMAIN p2.q},
                            held |-> {p2.loops[l].item.id :
                                        l \in LoopsAt(p2, "fetch")
                                              \cup LoopsAt(p2, "unlockWait")}]}]
              ELSE p2
    IN  IF ~p3.audioUnlocked THEN [p3 EXCEPT !.unlockHidden = FALSE] ELSE p3

\* ws.onmessage
onmessage(p, msg) ==
    LET p1 == IF msg.type = "read" /\ msg.ref # <<>>
              THEN enqueue(p, msg.ref, msg, msg.id) ELSE p
        p2 == IF msg.type = "bulk" THEN enqueueAll(p1, msg.items, msg.id) ELSE p1
        p3 == IF msg.type = "clear"
              THEN [p2 EXCEPT
                      !.q = <<>>,
                      !.clears = @ \cup
                          {[queued |-> {p2.q[i].id : i \in DOMAIN p2.q},
                            held |-> {p2.loops[l].item.id :
                                        l \in LoopsAt(p2, "fetch")
                                              \cup LoopsAt(p2, "unlockWait")}]}]
              ELSE p2
    IN  IF ~p3.audioUnlocked THEN [p3 EXCEPT !.unlockHidden = FALSE] ELSE p3

\* async function fetchVerseText(ref), given what the lookup answered:
\*   r.network  "error" when fetch() rejects
\*   r.ok       the response's ok flag
\*   r.text     j.text (empty when absent)
\*   r.hasVerses, r.verses   Array.isArray(j.verses), and the v.text of each
\* The result: whether the function threw, and the text it returned.
JoinVerses(vs) ==
    LET RECURSIVE Join(_)
        Join(k) == IF k > Len(vs) THEN <<>>
                   ELSE (IF k > 1 THEN <<" ">> ELSE <<>>) \o Trim(vs[k]) \o Join(k + 1)
    IN  Join(1)

fetchVerseText(r) ==
    IF r.network = "error" \/ ~r.ok THEN [threw |-> TRUE, text |-> <<>>]
    ELSE IF r.text # <<>> THEN [threw |-> FALSE, text |-> CollapseSpaces(Trim(r.text))]
    ELSE IF r.hasVerses THEN [threw |-> FALSE, text |-> CollapseSpaces(JoinVerses(r.verses))]
    ELSE [threw |-> TRUE, text |-> <<>>]

\* A variant of the loop's resolution step whose catch keeps the error's
\* message as the text
ErrorMessage(r) ==
    IF r.network = "error" THEN <<"F","a","i","l","e","d">>
    ELSE IF ~r.ok THEN <<"V","e","r","s","e"," ","n","o","t"," ","f","o","u","n","d">>
    ELSE <<"U","n","e","x","p","e","c","t","e","d">>
afterFetchKeepsError(p, l, r) ==
    LET got == fetchVerseText(r)
        item == p.loops[l].item
        text == IF got.threw THEN ErrorMessage(r) ELSE got.text
    IN  playItem([p EXCEPT !.resolved = Append(@, [id |-> item.id, threw |-> got.threw])],
                 l, [item EXCEPT !.text = text])

\* playLoop resumes from `await fetchVerseText(item.ref)` (part_000:52-53)
afterFetch(p, l, r) ==
    LET got == fetchVerseText(r)
        item == p.loops[l].item
        text == IF got.threw THEN item.ref ELSE got.text
    IN  playItem([p EXCEPT !.resolved = Append(@, [id |-> item.id, threw |-> got.threw])],
                 l, [item EXCEPT !.text = text])

\* Only an utterance some loop still awaits can have its end event observed
Settle(p) == [p EXCEPT !.interrupted = {i \in @ : SpeechWaiters(p, i) # {}}]

\* The number of items a page is followed for
MaxReceived == 3
\* The number of enableAudio() calls that may await elAudio.play() at once
MaxEnabling == 1

ItemsIn(msg) == IF msg.type = "bulk" THEN Len(msg.items)
                ELSE IF msg.type = "read" /\ msg.ref # <<>> THEN 1 ELSE 0

\* A frame arrives on the page's socket
Deliver(c, msg) ==
    /\ Len(page[c].received) + ItemsIn(msg) <= MaxReceived
    /\ page' = [page EXCEPT ![c] = Settle(onmessage(@, msg))]

\* The lookup of the item being resolved answers
FetchSettles(c, r) ==
    \E l \in LoopsAt(page[c], "fetch") :
        /\ page' = [page EXCEPT ![c] = Settle(afterFetch(@, l, r))]
        /\ UNCHANGED <<serverVars, readyState, chan>>

\* ensureAudioUnlocked(): a sleep(100) ends with the gate open
PollUnlock(c) ==
    \E l \in LoopsAt(page[c], "unlockWait") :
        /\ page[c].audioUnlocked
        /\ page' = [page EXCEPT ![c] = Settle(startPlaying(@, l, @.loops[l].item))]
        /\ UNCHANGED <<serverVars, readyState, chan>>

\* `await elAudio.play()` of playItem settles; either way playItem then
\* awaits elAudio.onended (part_000:70-71)
AudioPlaySettles(c, ok) ==
    \E l \in LoopsAt(page[c], "audioPlay") :
        /\ page' = [page EXCEPT ![c] =
                      [SetLoop(@, l, "audioEnded", @.loops[l].item) EXCEPT
                          !.audio = IF ok THEN "playing" ELSE @,
                          !.onended = page[c].loops[l].item.id]]
        /\ UNCHANGED <<serverVars, readyState, chan>>

\* The clip ends: elAudio.onended runs
AudioEnded(c) ==
    LET p == page[c]
        ws == {l \in LoopsAt(p, "audioEnded") : p.loops[l].item.id = p.onended}
    IN  /\ p.audio = "playing"
        /\ page' = [page EXCEPT ![c] =
                      IF ws = {} THEN [p EXCEPT !.audio = "stopped"]
                      ELSE itemDone([p EXCEPT !.audio = "stopped"],
                                    CHOOSE l \in ws : TRUE, "ended")]
        /\ UNCHANGED <<serverVars, readyState, chan>>

\* An utterance's end event: it finished, or a browser reports the end of one
\* that cancel() cut
SpeechEnd(c) ==
    LET p == page[c]
    IN  \E id \in ({p.speaking} \ {0}) \cup p.interrupted :
           LET p1 == [p EXCEPT !.speaking = IF @ = id THEN 0 ELSE @,
                               !.interrupted = @ \ {id}]
               ws == SpeechWaiters(p1, id)
           IN  /\ page' = [page EXCEPT ![c] =
                             Settle(IF ws = {} THEN p1
                                    ELSE itemDone(p1, CHOOSE l \in ws : TRUE, "speechEnd"))]
               /\ UNCHANGED <<serverVars, readyState, chan>>

\* An armed timer runs speechSynthesis.cancel(): the watchdog of an item
\* (part_000:79), which also ends that item's race, or the one enableAudio
\* armed (part_000:100)
TimerFires(c) ==
    LET p == page[c]
    IN  \E t \in p.timers :
           LET p1 == synthCancel([p EXCEPT !.timers = @ \ {t}])
               ws == IF t.kind = "watchdog" THEN SpeechWaiters(p1, t.id) ELSE {}
           IN  /\ page' = [page EXCEPT ![c] =
                             Settle(IF ws = {} THEN p1
                                    ELSE itemDone(p1, CHOOSE l \in ws : TRUE, "watchdog"))]
               /\ UNCHANGED <<serverVars, readyState, chan>>

\* `await sleep(4000)`, the presentation without speech synthesis, ends
FallbackDone(c) ==
    \E l \in LoopsAt(page[c], "fallback") :
        /\ page' = [page EXCEPT ![c] = itemDone(@, l, "fallback")]
        /\ UNCHANGED <<serverVars, readyState, chan>>

\* `await sleep(1000)` ends: updatePreview() and the next turn of the loop
GapDone(c) ==
    \E l \in LoopsAt(page[c], "gap") :
        /\ page' = [page EXCEPT ![c] = Settle(loopTop(SetLoop(@, l, "top", NoItem), l))]
        /\ UNCHANGED <<serverVars, readyState, chan>>

\* The unlock button is clicked: enableAudio() runs to `await elAudio.play()`
Gesture(c) ==
    /\ ~page[c].unlockHidden
    /\ page[c].enabling < MaxEnabling
    /\ page' = [page EXCEPT ![c].enabling = @ + 1]
    /\ UNCHANGED <<serverVars, readyState, chan>>

\* enableAudio() from its first await on (part_000:93-104)
enableAudio(p) ==
    LET paused == [p EXCEPT !.enabling = @ - 1, !.audio = "stopped"]
        primed == IF p.speechEnv \in {"none", "ctorThrows"} THEN paused
                  ELSE LET quiet == synthCancel(paused)
                       IN  [quiet EXCEPT
                              !.speaking = IF p.speechEnv = "ok" THEN 0 - 1 ELSE @,
                              !.timers = @ \cup {[kind |-> "prime", id |-> 0]}]
    IN  [primed EXCEPT !.audioUnlocked = TRUE, !.unlockHidden = TRUE]

\* elAudio.play() of an enableAudio() call settles, resolved or rejected
EnableSettles(c) ==
    /\ page[c].enabling > 0
    /\ page' = [page EXCEPT ![c] = Settle(enableAudio(@))]
    /\ UNCHANGED <<serverVars, readyState, chan>>

-----------------------------------------------------------------------------
(* Inputs *)

RefJohn316 == <<"j","o","h","n"," ","3",":","1","6">>
RefRange == <<"J","o","h","n"," ","3",":","1","-","9","9">>
RefPsalm == <<"P","s","a","l","m"," ","2","3",":","1">>
TextHello == <<"h","e","l","l","o">>
TextSupplied == <<"T","h","e"," ","L","o","r","d">>
Secret == <<"k","e","y">>

\* The chat events: a viewer with a userId, and one with neither userId nor
\* uniqueId
ChatUsers ==
    {[userId |-> "7001", uniqueId |-> "alice"],
     [userId |-> "", uniqueId |-> ""]}
ChatComments == {RefRange, TextHello}
ChatData ==
    {[userId |-> u.userId, uniqueId |-> u.uniqueId, comment |-> t] :
        u \in ChatUsers, t \in ChatComments}

\* The comments that exercise the parser: a long range, the same followed by
\* a word, a short range, a lower-case reference, and no reference
RefRangeThenWord == RefRange \o <<" ","o","k">>
RefShortRange == <<"J","o","h","n"," ","3",":","1","-","4">>
ParserComments == {RefRange, RefRangeThenWord, RefShortRange, RefJohn316, TextHello}
ParserData ==
    {[userId |-> u.userId, uniqueId |-> u.uniqueId, comment |-> t] :
        u \in ChatUsers, t \in ParserComments}

AdminTokens == {<<>>, Secret}
AuthHeaders == {<<>>, Bearer(Secret), Bearer(<<"b","a","d">>), Bearer(<<>>)}
InjectBodies ==
    {[ref |-> r, text |-> t, audioUrl |-> a, user |-> ""] :
        r \in {<<>>, RefPsalm}, t \in {<<>>, TextSupplied}, a \in {"", "clip.mp3"}}

\* The bodies sent to the relay alone: without a ref, and with ref, text and
\* clip
RelayBodies == {b \in InjectBodies : b.ref = <<>> \/ (b.text # <<>> /\ b.audioUrl # "")}

\* What the lookup may answer
Lookups ==
    {[network |-> "error", ok |-> FALSE, text |-> <<>>, hasVerses |-> FALSE, verses |-> <<>>],
     [network |-> "ok", ok |-> FALSE, text |-> <<>>, hasVerses |-> FALSE, verses |-> <<>>],
     [network |-> "ok", ok |-> TRUE, text |-> <<>>, hasVerses |-> FALSE, verses |-> <<>>],
     [network |-> "ok", ok |-> TRUE, text |-> <<" ","G","o","d"," "," ","i","s","\n">>,
      hasVerses |-> FALSE, verses |-> <<>>],
     [network |-> "ok", ok |-> TRUE, text |-> <<>>, hasVerses |-> TRUE,
      verses |-> << <<"G","o","d"," ">>, <<"i","s","\n">> >>]}

SpeechEnvs == {"none", "ok", "speakThrows", "ctorThrows"}

ReadFrame(ref, text, audioUrl) ==
    [type |-> "read", ref |-> ref, text |-> text, audioUrl |-> audioUrl,
     user |-> "admin", items |-> <<>>, id |-> 0]
BulkItem(ref, text) == [ref |-> ref, text |-> text, audioUrl |-> "", user |-> "admin"]
\* The frames a page may be sent by a relay: read, bulk and clear
FeedFrames ==
    {ReadFrame(<<>>, <<>>, ""), ReadFrame(RefJohn316, <<>>, ""),
     ReadFrame(RefJohn316, TextSupplied, ""), ReadFrame(RefJohn316, TextSupplied, "clip.mp3")}
    \cup {[type |-> "bulk", ref |-> <<>>, text |-> <<>>, audioUrl |-> "", user |-> "",
           items |-> <<BulkItem(RefPsalm, <<>>), BulkItem(RefJohn316, TextSupplied)>>,
           id |-> 0],
          [type |-> "clear", ref |-> <<>>, text |-> <<>>, audioUrl |-> "", user |-> "",
           items |-> <<>>, id |-> 0]}

-----------------------------------------------------------------------------
(* Specifications *)

InitServer(tokens) ==
    /\ now = StartTime
    /\ lastActivityAt = StartTime
    /\ lastGlobal = 0
    /\ recentUsers = [u \in {} |-> 0]
    /\ nextKeepalive = StartTime + KEEPALIVE_INTERVAL_MS
    /\ adminToken \in tokens
    /\ response = NoResponse
    /\ sent = <<>>
    /\ readyState = [c \in Consumers |-> CLOSED]
    /\ chan = [c \in Consumers |-> <<>>]

\* The relay alone, with one consumer's socket: the pages stay as loaded
InitRelay == InitServer(AdminTokens) /\ page = [c \in Consumers |-> InitPage("ok", TRUE)]

NextRelay ==
    \/ \E o \in Offsets : Tick(o)
    \/ \E data \in ChatData : Chat(data) /\ Len(sent') <= MaxSent
    \/ \E auth \in AuthHeaders :
          \E body \in RelayBodies : Inject(auth, body) /\ Len(sent') <= MaxSent
    \/ \E i \in DOMAIN AUTO_VERSES : Keepalive(i) /\ Len(sent') <= MaxSent
    \/ WsOpen("c1")
    \/ WsClose("c1")

SpecRelay == InitRelay /\ [][NextRelay]_vars

\* The chat path alone, with the comments that exercise the parser, on a
\* host whose clock reads the usual time or is still near the epoch
EpochStarts == {Eps, GLOBAL_MIN_INTERVAL_MS + Eps}

InitAdmission ==
    /\ now \in EpochStarts \cup {StartTime}
    /\ lastActivityAt = now
    /\ lastGlobal = 0
    /\ recentUsers = [u \in {} |-> 0]
    /\ nextKeepalive = now + KEEPALIVE_INTERVAL_MS
    /\ adminToken = Secret
    /\ response = NoResponse
    /\ sent = <<>>
    /\ readyState = [c \in Consumers |-> CLOSED]
    /\ chan = [c \in Consumers |-> <<>>]
    /\ page = [c \in Consumers |-> InitPage("ok", TRUE)]

NextAdmission ==
    \/ \E o \in Offsets : Tick(o)
    \/ \E data \in ParserData : Chat(data) /\ Len(sent') <= MaxSent
    \/ WsOpen("c1")
    \/ WsClose("c1")

SpecAdmission == InitAdmission /\ [][NextAdmission]_vars

\* One page alone, sent any frames
Receive(c) ==
    \E msg \in FeedFrames :
        /\ Deliver(c, msg)
        /\ UNCHANGED <<serverVars, readyState, chan>>

InitPlayer ==
    /\ InitServer({Secret})
    /\ \E env \in SpeechEnvs : \E hidden \in BOOLEAN :
          page = [c \in Consumers |-> InitPage(env, hidden)]

NextPlayer ==
    \/ Receive("c1")
    \/ \E r \in Lookups : FetchSettles("c1", r)
    \/ PollUnlock("c1")
    \/ \E ok \in BOOLEAN : AudioPlaySettles("c1", ok)
    \/ AudioEnded("c1")
    \/ SpeechEnd("c1")
    \/ TimerFires("c1")
    \/ FallbackDone("c1")
    \/ GapDone("c1")
    \/ Gesture("c1")
    \/ EnableSettles("c1")

SpecPlayer == InitPlayer /\ [][NextPlayer]_vars

\* The relay with its consumers.  The clock is observed when the global
\* interval has passed and when a keepalive is due; one viewer chats and the
\* administrator injects a reference with its text.  The page of c1 is
\* followed, in a browser without speech synthesis; c2 is a second open
\* socket, whose page is not followed.
OnMessage(c) ==
    /\ chan[c] # <<>>
    /\ Deliver(c, Head(chan[c]))
    /\ chan' = [chan EXCEPT ![c] = Tail(@)]
    /\ UNCHANGED <<serverVars, readyState>>

Init ==
    /\ InitServer({Secret})
    /\ page = [c \in Consumers |-> InitPage("none", TRUE)]

Next ==
    \/ \E o \in {GLOBAL_MIN_INTERVAL_MS, USER_COOLDOWN_MS + Eps} : Tick(o)
    \/ \E data \in {d \in ChatData : d.comment = RefRange /\ d.uniqueId = "alice"} :
          Chat(data) /\ Len(sent') <= MaxRelayed
    \/ \E body \in {b \in InjectBodies : b.ref # <<>> /\ b.text # <<>> /\ b.audioUrl = ""} :
          Inject(Bearer(Secret), body) /\ Len(sent') <= MaxRelayed
    \/ Keepalive(1) /\ Len(sent') <= MaxRelayed
    \/ \E c \in Consumers : WsOpen(c)
    \/ OnMessage("c1")
    \/ FetchSettles("c1", CHOOSE r \in Lookups : r.network = "error")
    \/ PollUnlock("c1")
    \/ FallbackDone("c1")
    \/ GapDone("c1")
    \/ Gesture("c1")
    \/ EnableSettles("c1")

Spec == Init /\ [][Next]_vars

-----------------------------------------------------------------------------
(* Properties of the relay (SpecRelay).  `sent` holds every broadcast of    *)
(* the behaviour, and `response` the answer of the last handler run.        *)

\* The broadcasts made before the event `response` answers
Prior ==
    IF response.result \in {"queued", "200", "fired"}
    THEN 1 .. (Len(sent) - 1) ELSE DOMAIN sent
ChatSent(S) == {k \in S : sent[k].kind = "chat"}
\* The event answered arrived inside the global interval of an earlier
\* admission, or inside its user's cooldown
InGlobal == \E k \in ChatSent(Prior) : now - sent[k].at < GLOBAL_MIN_INTERVAL_MS
InCooldown ==
    \E k \in ChatSent(Prior) :
        sent[k].user = response.user /\ now - sent[k].at < USER_COOLDOWN_MS
Judged == response.op = "chat" /\ response.result \in {"throttled", "queued"}

\* C1 (global throttle): a reference-shaped chat event that arrives less than
\* GLOBAL_MIN_INTERVAL_MS after an admitted one is rejected, whoever sent it;
\* one that arrives when the interval has passed and whose user is outside
\* their cooldown is admitted; so any two broadcasts of the chat path are at
\* least GLOBAL_MIN_INTERVAL_MS apart.
GlobalThrottle ==
    /\ \A i, j \in ChatSent(DOMAIN sent) :
          i < j => sent[j].at - sent[i].at >= GLOBAL_MIN_INTERVAL_MS
    /\ Judged /\ InGlobal => response.result = "throttled"
    /\ Judged /\ ~InGlobal /\ ~InCooldown => response.result = "queued"

\* Two users were admitted 13 s apart, and an event 7 s later is rejected
GlobalThrottleWitness ==
    /\ Len(sent) = 2
    /\ sent[1].kind = "chat" /\ sent[2].kind = "chat"
    /\ sent[1].user # sent[2].user
    /\ sent[2].at - sent[1].at = GLOBAL_MIN_INTERVAL_MS + Eps
    /\ response.op = "chat" /\ response.result = "throttled"
    /\ now > sent[2].at /\ now - sent[2].at < GLOBAL_MIN_INTERVAL_MS

\* C2 (per-user cooldown): a user admitted at t has every later event
\* rejected while now - t < USER_COOLDOWN_MS, and is admitted again from
\* t + USER_COOLDOWN_MS on when the global interval has passed; so two
\* admissions of one user are at least USER_COOLDOWN_MS apart.
PerUserCooldown ==
    /\ \A i, j \in ChatSent(DOMAIN sent) :
          i < j /\ sent[i].user = sent[j].user
             => sent[j].at - sent[i].at >= USER_COOLDOWN_MS
    /\ Judged /\ InCooldown => response.result = "throttled"
    /\ (/\ Judged
        /\ \E k \in ChatSent(Prior) : sent[k].user = response.user
        /\ \A k \in ChatSent(Prior) :
              /\ now - sent[k].at >= GLOBAL_MIN_INTERVAL_MS
              /\ sent[k].user = response.user => now - sent[k].at >= USER_COOLDOWN_MS)
          => response.result = "queued"

\* A user is admitted for the second time, 76 s after the first
PerUserCooldownWitness ==
    /\ Len(sent) = 2
    /\ sent[1].kind = "chat" /\ sent[2].kind = "chat"
    /\ sent[1].user = sent[2].user
    /\ sent[2].at - sent[1].at = USER_COOLDOWN_MS + Eps
    /\ response.op = "chat" /\ response.result = "queued"

\* C3 (rejection leaves the admission state untouched): a chat event that is
\* not admitted, whether ignored for its shape or throttled, changes neither
\* lastGlobal nor recentUsers; an admitted one sets lastGlobal and its
\* user's entry of recentUsers to now, and no other entry.
RejectionWritesNothing ==
    [][response'.op = "chat" =>
         IF response'.result = "queued"
         THEN /\ lastGlobal' = now'
              /\ recentUsers' = [u \in DOMAIN recentUsers \cup {response'.user} |->
                                    IF u = response'.user THEN now' ELSE recentUsers[u]]
         ELSE /\ lastGlobal' = lastGlobal
              /\ recentUsers' = recentUsers]_vars

\* A user inside their cooldown is rejected when the global interval has
\* passed, and the admission state still holds the earlier admission
RejectionWritesNothingWitness ==
    /\ response.op = "chat" /\ response.result = "throttled"
    /\ now - lastGlobal >= GLOBAL_MIN_INTERVAL_MS
    /\ response.user \in DOMAIN recentUsers
    /\ now - recentUsers[response.user] < USER_COOLDOWN_MS
    /\ lastGlobal = recentUsers[response.user]

\* C4 (unauthorized injection): a /inject request whose credential is
\* missing or wrong, or made when no ADMIN_TOKEN is configured, is answered
\* 401; it broadcasts nothing, changes no consumer's frames or page, and
\* leaves lastActivityAt, lastGlobal and recentUsers as they were.
UnauthorizedInjectNoEffect ==
    [][response'.op = "inject" =>
         \A auth \in AuthHeaders : \A body \in RelayBodies :
            (adminToken = <<>> \/ auth # Bearer(adminToken)) /\ Inject(auth, body)
               => /\ response'.result = "401"
                  /\ UNCHANGED <<sent, chan, page, lastActivityAt, lastGlobal,
                                 recentUsers>>]_vars

\* A request is refused while a consumer is connected and the last activity
\* lies in the past
UnauthorizedInjectNoEffectWitness ==
    /\ response.op = "inject" /\ response.result = "401"
    /\ readyState["c1"] = OPEN
    /\ sent # <<>>
    /\ lastActivityAt < now

\* C6 (idle keepalive guard): the keepalive callback broadcasts only when a
\* consumer's socket is open and every earlier broadcast, of any kind, is
\* more than QUIET_GAP_MS old; when it broadcasts it sets lastActivityAt to
\* now.
KeepaliveGuard ==
    [][Len(sent') = Len(sent) + 1 /\ sent'[Len(sent')].kind = "auto"
         => /\ \E c \in Consumers : readyState[c] = OPEN
            /\ \A k \in DOMAIN sent : now - sent[k].at > QUIET_GAP_MS
            /\ lastActivityAt' = now]_vars

\* The keepalive fired 56 s after an admitted chat event or an injection
KeepaliveGuardWitness ==
    /\ Len(sent) = 2
    /\ sent[1].kind \in {"chat", "inject"}
    /\ sent[2].kind = "auto"
    /\ sent[2].at - sent[1].at = QUIET_GAP_MS + Eps
    /\ lastActivityAt = sent[2].at

-----------------------------------------------------------------------------
(* Properties of the relay with its consumers (Spec) *)

Resolving(loop) == loop.pc = "fetch"
Enqueued(frame) == frame.type = "read" /\ frame.ref # <<>>
\* The read requests of consumer c, each by the number of its broadcast, from
\* the oldest on: those presented, the one being resolved, those queued, and
\* those still in flight to the page
Pipeline(c) ==
    LET p == page[c]
        resolving == SelectSeq(p.loops, Resolving)
        inFlight == SelectSeq(chan[c], Enqueued)
    IN  [k \in 1 .. Len(p.presented) |-> p.received[p.presented[k].id].from]
        \o [k \in 1 .. Len(resolving) |-> p.received[resolving[k].item.id].from]
        \o [k \in 1 .. Len(p.q) |-> p.received[p.q[k].id].from]
        \o [k \in 1 .. Len(inFlight) |-> inFlight[k].id]
StrictlyIncreasing(seq) == \A i, j \in DOMAIN seq : i < j => seq[i] < seq[j]

\* C5 (end-to-end ordering): for every consumer, the read requests it has
\* presented, is resolving, holds in its queue and is still to receive are,
\* in that order, in the order of their broadcast, each once: nothing is
\* reordered between broadcast, enqueue and presentation.
EndToEndOrder == \A c \in Consumers : StrictlyIncreasing(Pipeline(c))

\* A page has presented an admitted chat event, an injection and a keepalive
\* request, and a second consumer was sent two of them
EndToEndOrderWitness ==
    /\ Len(page["c1"].presented) = 3
    /\ {sent[k].kind : k \in DOMAIN sent} = {"chat", "inject", "auto"}
    /\ Len(chan["c2"]) >= 2

-----------------------------------------------------------------------------
(* Properties of one page (SpecPlayer) *)

P == page["c1"]
Ids(seq) == {seq[k].id : k \in DOMAIN seq}
Members(seq) == {seq[k] : k \in DOMAIN seq}
NoRepeat(seq) == \A i, j \in DOMAIN seq : i # j => seq[i] # seq[j]
\* The items clears removed from q, and those a loop held at a clear
Cleared(p) == UNION {s.queued : s \in p.clears}
Held(p) == UNION {s.held : s \in p.clears}
\* The items some loop holds
InHand(p) == {p.loops[l].item.id : l \in DOMAIN p.loops} \ {0}

\* C7 (queue draining): no item is presented twice; an item is presented
\* only when every item presented before it has completed; and when the loop
\* has ended, q is empty and the items presented are exactly the items
\* received that no clear removed, each completed, in their order of arrival.
QueueDraining ==
    /\ NoRepeat([k \in DOMAIN P.presented |-> P.presented[k].id])
    /\ \A k \in DOMAIN P.presented :
          k < Len(P.presented) => P.presented[k].id \in Ids(P.completed)
    /\ \A i, j \in DOMAIN P.presented : i < j => P.presented[i].id < P.presented[j].id
    /\ P.loops = <<>> =>
          /\ P.q = <<>>
          /\ Ids(P.presented) = (1 .. Len(P.received)) \ Cleared(P)
          /\ Ids(P.completed) = Ids(P.presented)

\* Three items arrived, no clear removed one, the gesture was made, and the
\* loop has ended after three presentations
QueueDrainingWitness ==
    /\ Len(P.received) = 3
    /\ Cleared(P) = {}
    /\ P.audioUnlocked
    /\ P.loops = <<>> /\ ~P.playing
    /\ Len(P.presented) = 3 /\ Len(P.completed) = 3

\* C8 (clear before play), as stated: when a clear arrives after two items
\* were enqueued of which the first is still being resolved or waits for the
\* unlock gesture, neither of the two is presented afterwards.
ClearBeforePlayPresentsNone ==
    \A s \in P.clears :
        1 \in s.held /\ 2 \in s.queued => 1 \notin Members(P.played) /\ 2 \notin Members(P.played)

\* C8, amended: a clear empties q, and no item it removed from q is ever
\* resolved, displayed or played; the item the loop had already taken from q
\* (the first item enqueued on an idle page is taken at once) is not removed,
\* and has been presented when the loop ends.
ClearedNeverPresented ==
    /\ \A id \in Cleared(P) :
          /\ id \notin Members(P.fetched)
          /\ id \notin Ids(P.presented)
          /\ id \notin Members(P.played)
          /\ id \notin Ids(P.q) \cup InHand(P)
    /\ Held(P) \cap Cleared(P) = {}
    /\ P.loops = <<>> => Held(P) \subseteq Ids(P.presented)

\* Two items were enqueued, a clear arrived while the first was resolved or
\* waited for the gesture, and the loop has ended: the first was presented
ClearedNeverPresentedWitness ==
    /\ \E s \in P.clears : 1 \in s.held /\ 2 \in s.queued
    /\ P.loops = <<>>
    /\ 1 \in Ids(P.completed)

\* C9 (content resolution): a lookup is started at most once per item, and
\* only for an item that arrived without text; every item whose lookup was
\* answered is presented, and when the lookup failed the text presented is
\* the item's reference.
ContentResolution ==
    /\ NoRepeat(P.fetched)
    /\ \A k \in DOMAIN P.fetched : P.received[P.fetched[k]].text = <<>>
    /\ NoRepeat([k \in DOMAIN P.resolved |-> P.resolved[k].id])
    /\ \A r \in Members(P.resolved) :
          /\ r.id \in Members(P.fetched)
          /\ \E k \in DOMAIN P.presented :
                /\ P.presented[k].id = r.id
                /\ r.threw => P.presented[k].text = P.received[r.id].ref

\* An item's lookup failed and its reference was presented, after an item
\* that arrived with its text and was presented without a lookup
ContentResolutionWitness ==
    /\ \E r \in Members(P.resolved) : r.threw /\ r.id = 2
    /\ 1 \notin Members(P.fetched)
    /\ Len(P.presented) >= 2
    /\ P.presented[2].text = P.received[2].ref

\* C10 (unlock resume): an item waiting at the unlock gate is the last one
\* displayed and has not started playing; it stays there, whatever the page
\* receives, until the gate is open, and then it is that item which starts
\* playing next, without being enqueued or displayed again.
UnlockResume ==
    [][\A l \in LoopsAt(P, "unlockWait") :
          LET item == P.loops[l].item
          IN  /\ P.presented[Len(P.presented)].id = item.id
              /\ item.id \notin Members(P.played)
              /\ \/ \E m \in LoopsAt(P', "unlockWait") : P'.loops[m].item = item
                 \/ /\ P.audioUnlocked
                    /\ Len(P'.played) > Len(P.played)
                    /\ P'.played[Len(P.played) + 1] = item.id
                    /\ P'.received = P.received
                    /\ Cardinality({k \in DOMAIN P'.presented :
                                       P'.presented[k].id = item.id}) = 1]_vars

\* The first item waited at the gate while a second was enqueued and a clear
\* arrived; after the gesture the first has started playing
UnlockResumeWitness ==
    /\ P.received # <<>> /\ P.received[1].text # <<>>
    /\ \E s \in P.clears : 1 \in s.held /\ 2 \in s.queued
    /\ P.audioUnlocked
    /\ P.played # <<>> /\ P.played[1] = 1

\* The states of a loop in which its item is in Playing
PlayingPcs == {"audioPlay", "audioEnded", "speech", "fallback"}

\* C11 (unlock gate safety): a loop is in the Playing state of an item, a
\* clip of an item plays, or an item's utterance is spoken, only when
\* audioUnlocked is true; no item has started playing while it was false.
UnlockGateSafety ==
    /\ \A l \in DOMAIN P.loops : P.loops[l].pc \in PlayingPcs => P.audioUnlocked
    /\ P.played # <<>> => P.audioUnlocked
    /\ P.audio = "playing" => P.audioUnlocked
    /\ P.speaking > 0 => P.audioUnlocked

\* An item that waited at the gate is spoken after the gesture
UnlockGateSafetyWitness ==
    /\ P.audioUnlocked
    /\ P.speaking = 1
    /\ \E l \in LoopsAt(P, "speech") : P.loops[l].item.id = 1

\* C15 (single-loop invariant): at most one playLoop call is active, and
\* playing is true exactly while it is; at most one item is presented and
\* not yet completed; and whenever playing is false q is empty.
SingleLoop ==
    /\ Len(P.loops) <= 1
    /\ P.playing <=> P.loops # <<>>
    /\ Cardinality(Ids(P.presented) \ Ids(P.completed)) <= 1
    /\ ~P.playing => P.q = <<>>

\* One loop presents the second item, after the gesture and a clear, with
\* another item queued
SingleLoopWitness ==
    /\ Len(P.loops) = 1 /\ P.playing
    /\ P.q # <<>>
    /\ P.audioUnlocked
    /\ P.clears # {}
    /\ P.completed # <<>>

\* C16 (audio start failure does not stall the loop): an item whose clip
\* failed to start is complete at once; no loop waits for the end of a clip
\* that is not playing.
AudioStartFailureCompletes ==
    \A l \in LoopsAt(P, "audioEnded") : P.audio = "playing"

\* C17 (no mid-item cancellation): where synthesis works, the utterance of
\* the item a loop awaits is the one being spoken until it ends by itself
\* or its own watchdog expires, both of which end the wait at once: no
\* other timer cancels it.
NoMidItemCancellation ==
    P.speechEnv = "ok" =>
        \A l \in LoopsAt(P, "speech") : P.speaking = P.loops[l].item.id

\* C18 (synthesis setup failure fallback): where speech synthesis is there
\* but creating or starting the utterance fails, an item without a clip is
\* presented by the 4 s fallback wait: no loop waits for an utterance or
\* its watchdog, and an item completes by the fallback (or its clip's end).
SetupFailureFallsBack ==
    P.speechEnv \in {"speakThrows", "ctorThrows"} =>
        /\ LoopsAt(P, "speech") = {}
        /\ \A k \in DOMAIN P.completed : P.completed[k].how \in {"fallback", "ended"}

ClearFrame == CHOOSE msg \in FeedFrames : msg.type = "clear"

\* C19 (clear is non-interrupting): a clear empties q at once and leaves the
\* loop and the item it holds (being resolved, at the unlock gate or
\* playing), the clip and the utterance as they are; when the loop has
\* ended, playing is false, the items a clear found in the loop's hands have
\* completed, and the items presented are those no clear removed from q.
ClearNonInterrupting ==
    [][/\ Deliver("c1", ClearFrame) =>
            /\ P'.q = <<>>
            /\ P'.loops = P.loops /\ P'.playing = P.playing
            /\ P'.presented = P.presented /\ P'.played = P.played
            /\ P'.completed = P.completed /\ P'.fetched = P.fetched
            /\ P'.audio = P.audio /\ P'.speaking = P.speaking
            /\ P'.timers = P.timers /\ P'.onended = P.onended
       /\ P'.loops = <<>> =>
            /\ ~P'.playing
            /\ Held(P') \subseteq Ids(P'.completed)
            /\ Ids(P'.presented) = (1 .. Len(P'.received)) \ Cleared(P')]_vars

\* A clear arrived while the first item was held and the second queued; the
\* first completed, the loop ended, and a third item, enqueued after the
\* clear, was presented and completed
ClearNonInterruptingWitness ==
    /\ \E s \in P.clears : s.held = {1} /\ s.queued = {2}
    /\ P.loops = <<>> /\ ~P.playing
    /\ Ids(P.completed) = {1, 3}
    /\ Len(P.received) = 3

\* C20 (the unlock gate is unconditional and monotonic): audioUnlocked
\* starts false; once the gesture is made it is true, whether the priming
\* elAudio.play() has resolved, rejected or not settled at all; and once
\* true it stays true.
GateUnconditionalMonotonic ==
    /\ ~P.audioUnlocked
    /\ [][/\ P'.enabling > 0 => P'.audioUnlocked
          /\ P.audioUnlocked => P'.audioUnlocked]_vars

-----------------------------------------------------------------------------
(* Properties of the chat path (SpecAdmission) *)

\* The references the chat path has put on the wire: the one just admitted
\* and those in flight to a consumer
OnWire ==
    (IF response.op = "chat" /\ response.result = "queued" THEN {response.ref} ELSE {})
    \cup UNION {{chan[c][k].ref : k \in DOMAIN chan[c]} : c \in Consumers}

\* C12 (canonical reference on the wire): every reference broadcast for an
\* admitted chat event is non-empty and canonical: canonicalizing it again
\* (normalizeRef) changes nothing.
CanonicalOnWire == \A ref \in OnWire : ref # <<>> /\ normalizeRef(ref) = ref

\* The verse ranges a reference carries: <<A, B>> for every :A-B in it, A and
\* B runs of digits not followed by a digit
VerseRanges(s) ==
    LET n == Len(s)
    IN  {<<DigitsToNat(SubSeq(s, m[1] + 1, m[2] - 1)),
           DigitsToNat(SubSeq(s, m[2] + 1, m[3]))>> :
            m \in {x \in (1..n) \X (1..n) \X (1..n) :
                     /\ s[x[1]] = ":" /\ s[x[2]] = "-"
                     /\ x[1] + 1 <= x[2] - 1 /\ x[2] + 1 <= x[3]
                     /\ AllIn(s, x[1] + 1, x[2] - 1, IsDigit)
                     /\ AllIn(s, x[2] + 1, x[3], IsDigit)
                     /\ (x[3] = n \/ ~IsDigit(s[x[3] + 1]))}}

\* C13 (range cap): every reference broadcast for an admitted chat event
\* has a verse span of at most MAX_RANGE_SPAN: a range A-B it carries has
\* B - A <= MAX_RANGE_SPAN.
RangeCapOnWire ==
    \A ref \in OnWire : \A r \in VerseRanges(ref) : r[2] - r[1] <= MAX_RANGE_SPAN

\* C14 (unseen users are admit-eligible): a reference-shaped event of a user
\* who was never admitted, arriving outside the global interval of every
\* earlier admission, is admitted, whatever the clock reads; so the first
\* reference-shaped event ever processed is admitted.
UnseenUserEligible ==
    (/\ Judged
     /\ ~InGlobal
     /\ \A k \in ChatSent(Prior) : sent[k].user # response.user)
       => response.result = "queued"

=============================================================================
